---- MODULE Spec2Model ----
(***************************************************************************)
(* A model of the metronome's audio engine (src/src/player.rs) and of the  *)
(* configuration code that drives it (src/src/main.rs).                    *)
(*                                                                         *)
(* Two contexts run concurrently.  The control context (the UI thread)     *)
(* sends PlayerCommand values over an mpsc channel.  The render context    *)
(* (the cpal output callback) drains the channel with try_iter, one        *)
(* try_recv at a time, then renders every active Playback into a mono      *)
(* scratch buffer, applies volume and tanh, advances the clock and writes  *)
(* the interleaved output.  The tap-tempo estimator and the click          *)
(* synthesis of main.rs, and single calls of Playback::read and            *)
(* Playback::read_sample, are modelled beside the engine.                  *)
(*                                                                         *)
(* Amplitudes are integers (one unit = 0.1), the linear gain is kept in    *)
(* tenths and the clipped output in thousandths.  usize values stay far    *)
(* below 2^64 within the bounds, so no arithmetic wraps.                   *)
(***************************************************************************)
EXTENDS Integers, Sequences, FiniteSets, TLC

(***************************************************************************)
(* Bounds of the model.                                                    *)
(***************************************************************************)
MaxFrames == 2     \* most mono frames of one ordinary render cycle
MaxTime == 3       \* no cycle starts once the clock has reached this value
MaxQueue == 2      \* most commands in flight in the channel
MaxSends == 2      \* AddPlaybacks and ClearPlaybacks calls of a run of Spec
MaxReconfigs == 2  \* replacements of the click set in a run of MainSpec
MaxNumerator == 2  \* largest beat count the configuration layer selects
MaxSubdiv == 2     \* largest subdiv_duration the configuration layer computes
ClickLen == 2      \* samples of a synthesized click (0.1 s of the sample rate)

(***************************************************************************)
(* Program constants.                                                      *)
(***************************************************************************)
TmpBufferLen == 32768    \* vec![0.0f32; 2 << 14]

Min(a, b) == IF a < b THEN a ELSE b

\* isize::clamp(lo, hi)
Clamp(x, lo, hi) == IF x < lo THEN lo ELSE IF x > hi THEN hi ELSE x

\* Option<usize>: None is the empty sequence, Some(n) is <<n>>.
None == << >>
Some(n) == <<n>>
IsSome(c) == Len(c) = 1
Unwrap(c) == c[1]

VARIABLES
    playbacks,    \* Vec<Playback> owned by the render callback
    time,         \* the sample clock owned by the render callback
    volume,       \* linear gain owned by the render callback, in tenths
    queue,        \* the mpsc channel, oldest command first
    rpc,          \* render callback: "idle", "drain" (inside try_iter),
                  \* "rendered" (about to return), "faulted" (panicked)
    mono,         \* the mono slice of tmp_buffer, before volume and tanh
    data,         \* the slots of the output buffer the callback has written
    numChannels,  \* config.channels()
    cpc,          \* control context: "idle", or "adding" between the two sends
    lastState,    \* main's last_state, as <<numerator, subdiv_duration>>
    \* history variables, read only by the properties
    sent,         \* number of AddPlaybacks/ClearPlaybacks commands sent so far
    lastClearSent,\* send number of the latest ClearPlaybacks sent (0: none)
    cycle,        \* what the running cycle saw, see RenderBegin
    replace,      \* how far the render context is through a replacement
    hits,         \* the sample additions made by the running cycle's reads
    framesRendered, \* sum of the mono frames of the cycles rendered so far
    \* the tap-tempo estimator of main.rs
    tapTempo,     \* the TapTempo value: its fields last and taps
    tapped,       \* history: the latest call of tap and what it returned
    \* one call of a function of the program on chosen arguments
    call          \* its name, its arguments and, once applied, its result

\* The state outside the engine, which its actions leave alone.
others == <<tapTempo, tapped, call>>

vars == <<playbacks, time, volume, queue, rpc, mono, data, numChannels, cpc,
          lastState, sent, lastClearSent, cycle, replace, hits, framesRendered,
          tapTempo, tapped, call>>


(***************************************************************************)
(* Playback (player.rs).  The fields rel, seq and admit are history fields *)
(* the code does not have: the relative offset the caller submitted, the   *)
(* send number of the AddPlaybacks command that carried the playback, and  *)
(* the clock value of the cycle that admitted it.                          *)
(***************************************************************************)
new(samples) ==
    [start |-> 0, repetition_period |-> 0, repetition_count |-> None,
     samples |-> samples, rel |-> 0, seq |-> 0, admit |-> 0]

offset(self, o) == [self EXCEPT !.start = o]

repeat(self, period, count) ==
    [self EXCEPT !.repetition_period = period, !.repetition_count = count]

\* Mutant of end: an unbounded playback is given the end of a single sounding.
end_NoneAsZero(self) ==
    Some(self.start + Len(self.samples)
         + self.repetition_period
           * (IF IsSome(self.repetition_count) THEN Unwrap(self.repetition_count) ELSE 0))

end(self) ==
    IF IsSome(self.repetition_count)
    THEN Some(self.start + Len(self.samples)
              + self.repetition_period * Unwrap(self.repetition_count))
    ELSE None

\* Mutant of ReadOffset: the waveform is always read from its first sample.
ReadOffset_FromStart(self, time_offset) == 0

\* read_sample's two clamped offsets and the length of the zip.
ReadOffset(self, time_offset) == Clamp(-time_offset, 0, Len(self.samples))
WriteOffset(time_offset, outLen) == Clamp(time_offset, 0, outLen)
ZipLen(self, time_offset, outLen) ==
    Min(outLen - WriteOffset(time_offset, outLen),
        Len(self.samples) - ReadOffset(self, time_offset))

\* The (destination index, source index) pairs of dst.iter_mut().zip(src.iter()),
\* both counted from 0.
ZipPairs(self, time_offset, outLen) ==
    { <<WriteOffset(time_offset, outLen) + i, ReadOffset(self, time_offset) + i>> :
        i \in 0 .. (ZipLen(self, time_offset, outLen) - 1) }

\* Mutant of read_sample: `*d = *s`.
read_sample_Overwrites(self, time_offset, output) ==
    LET pairs == ZipPairs(self, time_offset, Len(output))
    IN  [j \in 1 .. Len(output) |->
            IF \E pr \in pairs : pr[1] = j - 1
            THEN self.samples[(CHOOSE pr \in pairs : pr[1] = j - 1)[2] + 1]
            ELSE output[j]]

read_sample(self, time_offset, output) ==
    LET pairs == ZipPairs(self, time_offset, Len(output))
    IN  [j \in 1 .. Len(output) |->
            IF \E pr \in pairs : pr[1] = j - 1
            THEN output[j] + self.samples[(CHOOSE pr \in pairs : pr[1] = j - 1)[2] + 1]
            ELSE output[j]]

\* The repetitions the loop of read visits, in order, from rep on.
RECURSIVE ReadReps(_, _, _)
ReadReps(self, time_end, rep) ==
    LET rep_time == self.start + rep * self.repetition_period
    IN  IF rep_time >= time_end
        THEN << >>
        ELSE <<rep>> \o ReadReps(self, time_end, rep + 1)

\* usize::saturating_sub
SaturatingSub(a, b) == IF a > b THEN a - b ELSE 0

\* Mutant of FirstRep: the loop starts from the first repetition that begins at
\* or after t.
FirstRep_NotBefore(self, t) ==
    (SaturatingSub(t, self.start) + self.repetition_period - 1)
        \div self.repetition_period

\* The repetition the loop of read starts from (the period is not 0 here).
FirstRep(self, t) ==
    SaturatingSub(t, self.start) \div self.repetition_period

RECURSIVE ReadLoop(_, _, _, _)
ReadLoop(self, t, reps, buffer) ==
    IF reps = << >>
    THEN buffer
    ELSE LET rep_time == self.start + Head(reps) * self.repetition_period
         IN  ReadLoop(self, t, Tail(reps), read_sample(self, rep_time - t, buffer))

\* What the loop of read adds: which sample of which repetition lands on which
\* clock position.
ReadHits(self, t, outLen) ==
    LET reps == ReadReps(self, t + outLen, FirstRep(self, t))
    IN  UNION { { [p |-> self, rep |-> reps[k], src |-> pr[2], pos |-> t + pr[1]] :
                    pr \in ZipPairs(self,
                                    self.start + reps[k] * self.repetition_period - t,
                                    outLen) } :
                k \in 1 .. Len(reps) }

\* Playback::read.  "Panic" is the division by zero of the first repetition index.
read(self, t, buffer) ==
    LET time_end == t + Len(buffer)
    IN  IF time_end < self.start
        THEN [result |-> "NotYetStarted", buffer |-> buffer, hits |-> {}]
        ELSE IF IsSome(end(self)) /\ t > Unwrap(end(self))
        THEN [result |-> "Ended", buffer |-> buffer, hits |-> {}]
        ELSE IF self.repetition_period = 0
        THEN [result |-> "Panic", buffer |-> buffer, hits |-> {}]
        ELSE [result |-> "Ok",
              buffer |-> ReadLoop(self, t, ReadReps(self, time_end, FirstRep(self, t)),
                                  buffer),
              hits |-> ReadHits(self, t, Len(buffer))]


(***************************************************************************)
(* Inputs.                                                                 *)
(***************************************************************************)
\* A waveform of n samples; sample i has amplitude i.
Waveform(n) == [i \in 1 .. n |-> i]

\* hi_click, mid_click and lo_click: three assets of the same length.
hi_click == [i \in 1 .. ClickLen |-> 3]
mid_click == [i \in 1 .. ClickLen |-> 2]
lo_click == [i \in 1 .. ClickLen |-> 1]

\* The values handed to the builder in a run of Spec.
Lens == {1, 2}
Offsets == {0, 1}
Periods == {0, 1}
Counts == {None, Some(0)}

\* Every Playback the builder produces from them: new(samples), then offset
\* and repeat, each of which may be left out (offset 0; period 0, None).
Builds ==
    { repeat(offset(new(Waveform(n)), o), period, count) :
        n \in Lens, o \in Offsets, period \in Periods, count \in Counts }

\* The channel counts of the output device.
ChannelCounts == {2}

\* The decibel values handed to set_volume_db, and 10^(db/20) in tenths.
Dbs == {20}
Gain(db) == 10 ^ ((db + 20) \div 20)

\* The list main builds for (numerator, subdiv_duration), entries i = 0 .. numerator-1.
ClickList(numerator, subdiv_duration) ==
    LET bar_duration == subdiv_duration * numerator
    IN  [k \in 1 .. numerator |->
            LET i == k - 1
                sample == IF i = 0 THEN hi_click
                          ELSE IF i % 2 = 1 THEN lo_click
                          ELSE mid_click
            IN  repeat(offset(new(sample), i * subdiv_duration), bar_duration, None)]

(***************************************************************************)
(* The control context: Player's command interface and main's closure.     *)
(***************************************************************************)
\* History fields of a submitted list: the caller's offset and the send number.
Stamp(list, n) ==
    [k \in 1 .. Len(list) |-> [list[k] EXCEPT !.rel = list[k].start, !.seq = n]]

\* A send succeeds while the callback lives; the channel itself is unbounded.
CanSend(n) ==
    /\ rpc # "faulted"
    /\ Len(queue) + n <= MaxQueue

\* Player::add_playbacks with a list of one playback.
AddPlaybacks ==
    /\ cpc = "idle"
    /\ CanSend(1)
    /\ sent < MaxSends
    /\ \E b \in Builds :
        queue' = Append(queue, [type |-> "AddPlaybacks",
                                playbacks |-> Stamp(<<b>>, sent + 1),
                                seq |-> sent + 1, pair |-> FALSE])
    /\ sent' = sent + 1
    /\ UNCHANGED <<playbacks, time, volume, rpc, mono, data, numChannels, cpc,
                   lastState, lastClearSent, cycle, replace, hits>>
    /\ UNCHANGED <<framesRendered, others>>

\* Player::clear_playbacks
ClearPlaybacks ==
    /\ cpc = "idle"
    /\ CanSend(1)
    /\ sent < MaxSends
    /\ queue' = Append(queue, [type |-> "ClearPlaybacks", seq |-> sent + 1,
                               pair |-> FALSE])
    /\ sent' = sent + 1
    /\ lastClearSent' = sent + 1
    /\ UNCHANGED <<playbacks, time, volume, rpc, mono, data, numChannels, cpc,
                   lastState, cycle, replace, hits>>
    /\ UNCHANGED <<framesRendered, others>>

\* Player::set_volume_db
SetVolumeDb ==
    /\ cpc = "idle"
    /\ CanSend(1)
    /\ \E db \in Dbs :
        queue' = Append(queue, [type |-> "SetVolume", volume |-> Gain(db)])
    /\ UNCHANGED <<playbacks, time, volume, rpc, mono, data, numChannels, cpc,
                   lastState, sent, lastClearSent, cycle, replace, hits>>
    /\ UNCHANGED <<framesRendered, others>>

\* main: the state changed, so the click set is replaced.  First send:
\* player.clear_playbacks().
ReconfigureClear ==
    /\ cpc = "idle"
    /\ CanSend(2)
    /\ sent + 2 <= 2 * MaxReconfigs
    /\ \E numerator \in 0 .. MaxNumerator, subdiv_duration \in 1 .. MaxSubdiv :
        /\ lastState # <<numerator, subdiv_duration>>
        /\ lastState' = <<numerator, subdiv_duration>>
    /\ queue' = Append(queue, [type |-> "ClearPlaybacks", seq |-> sent + 1,
                               pair |-> TRUE])
    /\ sent' = sent + 1
    /\ lastClearSent' = sent + 1
    /\ cpc' = "adding"
    /\ UNCHANGED <<playbacks, time, volume, rpc, mono, data, numChannels,
                   cycle, replace, hits>>
    /\ UNCHANGED <<framesRendered, others>>

\* main: second send, player.add_playbacks(the new click list).
ReconfigureAdd ==
    /\ cpc = "adding"
    /\ rpc # "faulted"
    /\ queue' = Append(queue, [type |-> "AddPlaybacks",
                               playbacks |-> Stamp(ClickList(lastState[1], lastState[2]),
                                                   sent + 1),
                               seq |-> sent + 1, pair |-> TRUE])
    /\ sent' = sent + 1
    /\ cpc' = "idle"
    /\ UNCHANGED <<playbacks, time, volume, rpc, mono, data, numChannels,
                   lastState, lastClearSent, cycle, replace, hits>>
    /\ UNCHANGED <<framesRendered, others>>

(***************************************************************************)
(* The render context: the output callback of Player::start.               *)
(***************************************************************************)
\* Mutant of Admit: the clock value is not added to the start.
Admit_NoShift(new_playbacks, t) ==
    [k \in 1 .. Len(new_playbacks) |-> [new_playbacks[k] EXCEPT !.admit = t]]

\* new_playbacks.into_iter().map(|p| Playback { start: p.start + time, ..p })
Admit(new_playbacks, t) ==
    [k \in 1 .. Len(new_playbacks) |->
        [new_playbacks[k] EXCEPT !.start = new_playbacks[k].start + t, !.admit = t]]

\* Mutant of ApplyCommand: ClearPlaybacks leaves the active set as it is.
ApplyCommand_NoClear(cmd, ps, vol, t) ==
    CASE cmd.type = "AddPlaybacks" ->
            [playbacks |-> ps \o Admit(cmd.playbacks, t), volume |-> vol]
      [] cmd.type = "ClearPlaybacks" -> [playbacks |-> ps, volume |-> vol]
      [] cmd.type = "SetVolume" -> [playbacks |-> ps, volume |-> cmd.volume]

\* Mutant of ApplyCommand: ClearPlaybacks also puts the volume back to 1.0.
ApplyCommand_ClearResetsVolume(cmd, ps, vol, t) ==
    CASE cmd.type = "AddPlaybacks" ->
            [playbacks |-> ps \o Admit(cmd.playbacks, t), volume |-> vol]
      [] cmd.type = "ClearPlaybacks" -> [playbacks |-> << >>, volume |-> 10]
      [] cmd.type = "SetVolume" -> [playbacks |-> ps, volume |-> cmd.volume]

\* match cmd { ... }
ApplyCommand(cmd, ps, vol, t) ==
    CASE cmd.type = "AddPlaybacks" ->
            [playbacks |-> ps \o Admit(cmd.playbacks, t), volume |-> vol]
      [] cmd.type = "ClearPlaybacks" -> [playbacks |-> << >>, volume |-> vol]
      [] cmd.type = "SetVolume" -> [playbacks |-> ps, volume |-> cmd.volume]

\* playbacks.retain(|p| match p.read(time, mono) { ... }), entry by entry; a
\* panicking read ends the callback.
RECURSIVE Retain(_, _, _, _, _)
Retain(ps, t, buffer, kept, hs) ==
    IF ps = << >>
    THEN [fault |-> FALSE, kept |-> kept, mono |-> buffer, hits |-> hs]
    ELSE LET r == read(Head(ps), t, buffer)
         IN  IF r.result = "Panic"
             THEN [fault |-> TRUE, kept |-> kept, mono |-> buffer, hits |-> hs]
             ELSE Retain(Tail(ps), t, r.buffer,
                         IF r.result = "Ended" THEN kept ELSE Append(kept, Head(ps)),
                         hs \cup r.hits)

\* tanh of x, x in hundredths, result in thousandths: the rational approximant
\* x(15 + x^2)/(15 + 6x^2), kept inside (-1, 1).
Tanh(x) ==
    LET a == IF x < 0 THEN -x ELSE x
        y == IF a >= 300 THEN 999
             ELSE Min((10 * a * (150000 + a * a)) \div (150000 + 6 * a * a), 999)
    IN  IF x < 0 THEN -y ELSE y

\* *f = (volume * *f).tanh()
SoftClip(vol, buffer) == [j \in 1 .. Len(buffer) |-> Tanh(vol * buffer[j])]

\* Mutant of Expand: only channel 0 is written.
Expand_FirstChannel(processed, dataLen, c) ==
    LET slots == { i * c : i \in 0 .. Len(processed) - 1 } \cap (0 .. dataLen - 1)
    IN  [slot \in slots |-> processed[(slot \div c) + 1]]

\* for ch in 0..num_channels { data.skip(ch).step_by(num_channels).zip(mono) }:
\* the slots written (counted from 0) and their values.
Expand(processed, dataLen, c) ==
    LET slots == { ch + i * c : ch \in 0 .. c - 1, i \in 0 .. Len(processed) - 1 }
                    \cap (0 .. dataLen - 1)
    IN  [slot \in slots |-> processed[(slot \div c) + 1]]

\* Mutant of Advance: the clock counts output slots.
Advance_BySlots(t, rendered) == t + Len(rendered) * numChannels

\* time += mono.len()
Advance(t, rendered) == t + Len(rendered)

NoCycle == [t |-> 0, clear |-> 0, rendered |-> << >>, frames |-> 0]

\* The audio subsystem invokes the callback.  cycle records the clock value
\* and the latest ClearPlaybacks sent at that moment.
RenderBegin ==
    /\ rpc = "idle"
    /\ time < MaxTime
    /\ rpc' = "drain"
    /\ cycle' = [t |-> time, clear |-> lastClearSent, rendered |-> << >>,
                 frames |-> 0]
    /\ UNCHANGED <<playbacks, time, volume, queue, mono, data, numChannels, cpc,
                   lastState, sent, lastClearSent, replace, hits>>
    /\ UNCHANGED <<framesRendered, others>>

\* recv.try_iter() yields a command: one pass through the loop body.
DrainOne ==
    /\ rpc = "drain"
    /\ queue # << >>
    /\ LET cmd == Head(queue)
           next == ApplyCommand(cmd, playbacks, volume, time)
       IN  /\ playbacks' = next.playbacks
           /\ volume' = next.volume
           /\ replace' =
                IF cmd.type = "SetVolume" THEN replace
                ELSE IF ~cmd.pair THEN replace
                ELSE IF cmd.type = "ClearPlaybacks"
                THEN [mid |-> TRUE, dropped |-> playbacks]
                ELSE [replace EXCEPT !.mid = FALSE]
    /\ queue' = Tail(queue)
    /\ UNCHANGED <<time, rpc, mono, data, numChannels, cpc, lastState, sent,
                   lastClearSent, cycle, hits>>
    /\ UNCHANGED <<framesRendered, others>>

\* recv.try_iter() finds the channel empty; the rest of the callback follows:
\* render, volume and clipping, clock, channel expansion.
Render ==
    /\ rpc = "drain"
    /\ queue = << >>
    /\ \E frames \in 1 .. MaxFrames :
        LET dataLen == frames * numChannels
            len == dataLen \div numChannels
            zeroed == [j \in 1 .. len |-> 0]
            r == Retain(playbacks, time, zeroed, << >>, {})
        IN  /\ time + frames <= MaxTime
            /\ cycle' = [cycle EXCEPT !.rendered = playbacks, !.frames = len]
            /\ IF r.fault
               THEN /\ rpc' = "faulted"
                    /\ UNCHANGED <<playbacks, time, mono, data, hits,
                                   framesRendered>>
               ELSE /\ rpc' = "rendered"
                    /\ playbacks' = r.kept
                    /\ mono' = r.mono
                    /\ hits' = r.hits
                    /\ time' = Advance(time, r.mono)
                    /\ framesRendered' = framesRendered + len
                    /\ data' = Expand(SoftClip(volume, r.mono), dataLen, numChannels)
    /\ UNCHANGED <<volume, queue, numChannels, cpc, lastState, sent,
                   lastClearSent, replace>>
    /\ UNCHANGED others

\* The device hands the callback more frames than tmp_buffer holds:
\* &mut tmp_buffer[..(data.len() / num_channels)] is out of range.
RenderOversized ==
    /\ rpc = "drain"
    /\ queue = << >>
    /\ \E frames \in {TmpBufferLen + 1} :
        /\ (frames * numChannels) \div numChannels > TmpBufferLen
        /\ cycle' = [cycle EXCEPT !.rendered = playbacks, !.frames = frames]
    /\ rpc' = "faulted"
    /\ UNCHANGED <<playbacks, time, volume, queue, mono, data, numChannels, cpc,
                   lastState, sent, lastClearSent, replace, hits>>
    /\ UNCHANGED <<framesRendered, others>>

\* The callback returns: the output buffer goes back to the audio subsystem
\* and the borrow of tmp_buffer ends.
RenderReturn ==
    /\ rpc = "rendered"
    /\ rpc' = "idle"
    /\ mono' = << >>
    /\ data' = << >>
    /\ hits' = {}
    /\ cycle' = NoCycle
    /\ UNCHANGED <<playbacks, time, volume, queue, numChannels, cpc, lastState,
                   sent, lastClearSent, replace>>
    /\ UNCHANGED <<framesRendered, others>>

(***************************************************************************)
(* TapTempo (main.rs).  An Instant is a whole number of time units since   *)
(* the TapTempo was built and an interval is a difference of two of them.  *)
(* Halving and doubling an f32 are exact, so v < duration * 0.5 is         *)
(* 2 * v < duration over the integers.                                     *)
(***************************************************************************)
MaxTaps == 4       \* calls of tap in a run of TapSpec
MaxInterval == 4   \* longest interval between two taps, in time units

TapTempoNew == [taps |-> << >>, last |-> 0]

RECURSIVE Product(_)
Product(values) ==
    IF values = << >> THEN 1 ELSE Head(values) * Product(Tail(values))

\* The mean is product ^ (1 / n); the model keeps the two numbers.
geometric_mean(values) == [product |-> Product(values), n |-> Len(values)]

\* Vec::last().map_or(false, |&v| v < duration * 0.5 || v > duration * 2.0)
Rejects(taps, duration) ==
    /\ taps # << >>
    /\ LET v == taps[Len(taps)]
       IN  2 * v < duration \/ v > 2 * duration

\* Mutant of tap: a reset leaves last at the previous tap.
tap_StaleLast(self, now) ==
    LET duration == now - self.last
    IN  IF Rejects(self.taps, duration)
        THEN [self |-> [taps |-> << >>, last |-> self.last], result |-> None]
        ELSE LET pushed == Append(self.taps, duration)
             IN  [self |-> [taps |-> pushed, last |-> now],
                  result |-> Some([bpm |-> 60, over |-> geometric_mean(pushed)])]

\* Mutant of tap: a reset returns None without clearing the sequence.
tap_KeepsTaps(self, now) ==
    LET duration == now - self.last
    IN  IF Rejects(self.taps, duration)
        THEN [self |-> [taps |-> self.taps, last |-> now], result |-> None]
        ELSE LET pushed == Append(self.taps, duration)
             IN  [self |-> [taps |-> pushed, last |-> now],
                  result |-> Some([bpm |-> 60, over |-> geometric_mean(pushed)])]

\* TapTempo::tap with the value Instant::now() returned; the estimate
\* 60.0 / mean is kept as its numerator and the mean.
tap(self, now) ==
    LET duration == now - self.last
    IN  IF Rejects(self.taps, duration)
        THEN [self |-> [taps |-> << >>, last |-> now], result |-> None]
        ELSE LET pushed == Append(self.taps, duration)
             IN  [self |-> [taps |-> pushed, last |-> now],
                  result |-> Some([bpm |-> 60, over |-> geometric_mean(pushed)])]

NoTap == [n |-> 0, now |-> 0, last |-> 0, taps |-> << >>, result |-> None]

\* The user presses the tap key: tap_tempo.tap() at some later Instant.
\* The history keeps the call's number, its Instant, and the fields of the
\* TapTempo as the call found them.
Tap ==
    /\ tapped.n < MaxTaps
    /\ \E duration \in 0 .. MaxInterval :
        LET now == tapTempo.last + duration
            r == tap(tapTempo, now)
        IN  /\ tapTempo' = r.self
            /\ tapped' = [n |-> tapped.n + 1, now |-> now,
                          last |-> tapTempo.last, taps |-> tapTempo.taps,
                          result |-> r.result]
    /\ UNCHANGED <<playbacks, time, volume, queue, rpc, mono, data,
                   numChannels, cpc, lastState, sent, lastClearSent, cycle,
                   replace, hits, framesRendered, call>>

NoCall == [fn |-> "none"]

(***************************************************************************)
(* generate_click (main.rs).  The duration is a whole number of            *)
(* milliseconds and duration * sample_rate is taken exactly.  The envelope *)
(* is a power of minimum_volume = 0.01: the model keeps its exponent as a  *)
(* number of n-ths, so that decay_factor = 0.01 ^ (1 / n) is one n-th and  *)
(* envelope *= decay_factor adds one.  The sine factor and the gain of a   *)
(* sample are left out: a sample is its index and its envelope.            *)
(***************************************************************************)
MaxRate == 8       \* largest sample rate, in samples per second

MillisPerSecond == 1000

\* Duration values handed to generate_click, in milliseconds.
DurationsMs == {0, 100, 250, 500, 750, 1000, 1500, 2000}

\* f64::round of num / den, for num >= 0 and den > 0: half away from zero.
Round(num, den) == (2 * num + den) \div (2 * den)

\* `as usize` of num / den, for num >= 0 and den > 0: the fraction is dropped.
Truncate(num, den) == num \div den

\* for i in 0..n { result.push(gain * envelope * sine_wave); envelope *= decay_factor }
RECURSIVE ClickLoop(_, _, _, _)
ClickLoop(i, n, envelope, result) ==
    IF i >= n THEN result
    ELSE ClickLoop(i + 1, n, envelope + 1,
                   Append(result, [i |-> i, envelope |-> envelope]))

\* Mutant of the loop: the envelope decays before the sample is pushed.
RECURSIVE ClickLoop_DecayFirst(_, _, _, _)
ClickLoop_DecayFirst(i, n, envelope, result) ==
    IF i >= n THEN result
    ELSE ClickLoop_DecayFirst(i + 1, n, envelope + 1,
                   Append(result, [i |-> i, envelope |-> envelope + 1]))

\* Mutant of generate_click: n is rounded to nearest.
generate_click_Rounds(sample_rate, millis) ==
    LET n == Round(millis * sample_rate, MillisPerSecond)
    IN  ClickLoop(0, n, 0, << >>)

\* Mutant of generate_click: its loop decays first.
generate_click_DecayFirst(sample_rate, millis) ==
    LET n == Truncate(millis * sample_rate, MillisPerSecond)
    IN  ClickLoop_DecayFirst(0, n, 0, << >>)

\* generate_click; freq and gain do not bear on the length or the envelope.
generate_click(sample_rate, millis) ==
    LET n == Truncate(millis * sample_rate, MillisPerSecond)
    IN  ClickLoop(0, n, 0, << >>)

ClickCalls ==
    { [fn |-> "generate_click", sample_rate |-> r, millis |-> ms, result |-> None] :
        r \in 1 .. MaxRate, ms \in DurationsMs }

\* main synthesizes a click.
GenerateClick ==
    /\ call.fn = "generate_click"
    /\ call.result = None
    /\ call' = [call EXCEPT !.result = Some(generate_click(call.sample_rate, call.millis))]
    /\ UNCHANGED <<playbacks, time, volume, queue, rpc, mono, data,
                   numChannels, cpc, lastState, sent, lastClearSent, cycle,
                   replace, hits, framesRendered, tapTempo, tapped>>

(***************************************************************************)
(* Single calls of Playback::read_sample and of Playback::read.            *)
(***************************************************************************)
MaxShift == 3      \* largest |time_offset| handed to read_sample
MaxWindow == 3     \* most frames of one window handed to read
MaxStart == 2      \* latest start of a playback handed to read
MaxPeriod == 3     \* longest repetition_period of a playback handed to read

\* Output buffers that already hold something: every sequence of up to two
\* amplitudes out of {0, 10}.
Outputs ==
    UNION { [1 .. n -> {0, 10}] : n \in 0 .. 2 }

ReadSampleCalls ==
    { [fn |-> "read_sample", samples |-> Waveform(n), time_offset |-> o,
       output |-> out, result |-> None] :
        n \in 0 .. 2, o \in (-MaxShift) .. MaxShift, out \in Outputs }

\* Playback::read_sample on a playback of call.samples.
ReadSample ==
    /\ call.fn = "read_sample"
    /\ call.result = None
    /\ call' = [call EXCEPT !.result =
                    Some(read_sample(new(call.samples), call.time_offset, call.output))]
    /\ UNCHANGED <<playbacks, time, volume, queue, rpc, mono, data,
                   numChannels, cpc, lastState, sent, lastClearSent, cycle,
                   replace, hits, framesRendered, tapTempo, tapped>>

\* Unbounded playbacks, with and without overlap between repetitions.
WindowPlaybacks ==
    { repeat(offset(new(Waveform(n)), o), period, None) :
        n \in Lens, o \in 0 .. MaxStart, period \in 1 .. MaxPeriod }

\* A window [t, t + a) followed by the window [t + a, t + a + b).
WindowCalls ==
    { [fn |-> "read", playback |-> p, t |-> t, a |-> a, b |-> b, result |-> None] :
        p \in WindowPlaybacks, t \in 0 .. MaxWindow,
        a \in 1 .. MaxWindow, b \in 1 .. MaxWindow }

Zeroed(n) == [j \in 1 .. n |-> 0]

\* Playback::read over the two windows, each on a zeroed buffer as the callback
\* hands it over, and over the single window that spans both.
ReadWindows ==
    /\ call.fn = "read"
    /\ call.result = None
    /\ LET p == call.playback
       IN  call' = [call EXCEPT !.result = Some(
                [first |-> read(p, call.t, Zeroed(call.a)),
                 second |-> read(p, call.t + call.a, Zeroed(call.b)),
                 whole |-> read(p, call.t, Zeroed(call.a + call.b))])]
    /\ UNCHANGED <<playbacks, time, volume, queue, rpc, mono, data,
                   numChannels, cpc, lastState, sent, lastClearSent, cycle,
                   replace, hits, framesRendered, tapTempo, tapped>>

\* The state after Player::start and TapTempo::new, on a device whose channel
\* count is one of channels, with one of calls about to be made.
Start(channels, calls) ==
    /\ playbacks = << >>
    /\ time = 0
    /\ volume = 10
    /\ queue = << >>
    /\ rpc = "idle"
    /\ mono = << >>
    /\ data = << >>
    /\ numChannels \in channels
    /\ cpc = "idle"
    /\ lastState = <<0, 0>>
    /\ sent = 0
    /\ lastClearSent = 0
    /\ cycle = NoCycle
    /\ replace = [mid |-> FALSE, dropped |-> << >>]
    /\ hits = {}
    /\ framesRendered = 0
    /\ tapTempo = TapTempoNew
    /\ tapped = NoTap
    /\ call \in calls

Init == Start(ChannelCounts, {NoCall})

Callback ==
    \/ RenderBegin
    \/ DrainOne
    \/ Render
    \/ RenderOversized
    \/ RenderReturn

\* The engine behind its public interface: any caller of Player.
Next ==
    \/ AddPlaybacks
    \/ ClearPlaybacks
    \/ SetVolumeDb
    \/ Callback

Spec == Init /\ [][Next]_vars

\* The engine as main drives it.
MainNext ==
    \/ SetVolumeDb
    \/ ReconfigureClear
    \/ ReconfigureAdd
    \/ Callback

\* The audio subsystem keeps invoking the callback and the callback keeps
\* running; nothing is assumed of the control context.
MainSpec == Init /\ [][MainNext]_vars /\ WF_vars(Callback)

\* A caller that adds and clears playbacks and leaves the volume alone.
MixNext ==
    \/ AddPlaybacks
    \/ ClearPlaybacks
    \/ Callback

MixSpec == Init /\ [][MixNext]_vars

\* main's engine on a mono and on a three-channel output device (the stereo
\* device is MainSpec).
DeviceChannels == {1, 3}

DeviceInit == Start(DeviceChannels, {NoCall})

DeviceSpec == DeviceInit /\ [][MainNext]_vars

\* The engine from the moment its first callback has admitted one playback at
\* clock 0 and is still inside try_iter; the history counts the commands sent
\* from this moment on, and the admitted playback carries send number 0.
ClearInit ==
    /\ \E b \in Builds : playbacks = Admit(Stamp(<<b>>, 0), 0)
    /\ time = 0
    /\ volume = 10
    /\ queue = << >>
    /\ rpc = "drain"
    /\ mono = << >>
    /\ data = << >>
    /\ numChannels \in ChannelCounts
    /\ cpc = "idle"
    /\ lastState = <<0, 0>>
    /\ sent = 0
    /\ lastClearSent = 0
    /\ cycle = [t |-> 0, clear |-> 0, rendered |-> << >>, frames |-> 0]
    /\ replace = [mid |-> FALSE, dropped |-> << >>]
    /\ hits = {}
    /\ framesRendered = 0
    /\ tapTempo = TapTempoNew
    /\ tapped = NoTap
    /\ call = NoCall

\* A caller that only clears and sets the volume.
ClearNext ==
    \/ ClearPlaybacks
    \/ SetVolumeDb
    \/ Callback

ClearSpec == ClearInit /\ [][ClearNext]_vars

\* One call of a function of the program, on arguments drawn from small sets.
Calls == ClickCalls \cup ReadSampleCalls \cup WindowCalls

CallInit == Start(ChannelCounts, Calls)

CallNext ==
    \/ GenerateClick
    \/ ReadSample
    \/ ReadWindows

CallSpec == CallInit /\ [][CallNext]_vars

\* The tap-tempo estimator under any sequence of taps.
TapNext == Tap

TapSpec == Init /\ [][TapNext]_vars

(***************************************************************************)
(* Properties.  A cycle that has rendered is observed in the state         *)
(* rpc = "rendered": cycle.t is the clock value the cycle began with,      *)
(* cycle.frames the length of its window, cycle.rendered the active set it *)
(* rendered, hits what its reads added and playbacks what retain kept.     *)
(***************************************************************************)
Rendered == { cycle.rendered[k] : k \in 1 .. Len(cycle.rendered) }
Active == { playbacks[k] : k \in 1 .. Len(playbacks) }
Silence == [j \in 1 .. cycle.frames |-> 0]
ResultOf(p) == read(p, cycle.t, Silence).result
HitsOf(p) == { h \in hits : h.p = p }
Unbounded(p) == ~IsSome(p.repetition_count)

\* C1: a playback with repetition_count = Some(n) sounds n+1 times: no read
\* adds a repetition whose index is greater than n.
C1_NoRepetitionBeyondCount ==
    \A h \in hits :
        IsSome(h.p.repetition_count) => h.rep <= Unwrap(h.p.repetition_count)

\* C2: a finite playback read in a cycle whose clock value is at or past its
\* end() reports Ended: it adds nothing and the cycle removes it.
C2_EndedFromEndOn ==
    rpc = "rendered" =>
        \A p \in Rendered :
            (IsSome(end(p)) /\ cycle.t >= Unwrap(end(p)))
                => (HitsOf(p) = {} /\ p \notin Active)

\* C3: when read returns Ok, every sample of every repetition of the waveform
\* that lies inside the window is added, also when the waveform is longer
\* than the repetition period.
C3_EveryOverlappingRepetition ==
    rpc = "rendered" =>
        \A p \in Rendered :
            ResultOf(p) = "Ok" =>
                \A k \in 0 .. (cycle.t + cycle.frames), i \in 0 .. (Len(p.samples) - 1) :
                    LET pos == p.start + k * p.repetition_period + i
                    IN  ( /\ IsSome(p.repetition_count) => k <= Unwrap(p.repetition_count)
                          /\ cycle.t <= pos
                          /\ pos < cycle.t + cycle.frames )
                        => [p |-> p, rep |-> k, src |-> i, pos |-> pos] \in hits

\* C4: the replacement of the click set (clear_playbacks then add_playbacks) is
\* atomic for the callback: no cycle renders after it applied the clear of a
\* replacement that emptied a non-empty set and before it applied the add.
C4_ReplacementIsAtomic ==
    (rpc = "rendered" /\ replace.mid) => replace.dropped = << >>

\* C5: the render callback never fails; in particular no read divides by zero
\* in a cycle whose buffer fits the scratch buffer.
C5_CallbackNeverFails ==
    ~(rpc = "faulted" /\ cycle.frames <= TmpBufferLen)

\* C6: a playback with period 0 and a count that is unbounded or nonzero never
\* enters the active set.
C6_ZeroPeriodRejected ==
    \A p \in Active :
        p.repetition_period = 0 => p.repetition_count = Some(0)

\* C7: a playback submitted with relative offset o and admitted by the cycle
\* that began with clock value T has start = T + o from then on, and the first
\* sample of its first sounding is mixed at clock position T + o.
C7_StartIsClockPlusOffset ==
    /\ rpc = "drain" => time = cycle.t
    /\ \A p \in Active : p.start = p.admit + p.rel /\ p.admit <= time
    /\ rpc = "rendered" =>
        /\ \A h \in hits :
            (h.rep = 0 /\ h.src = 0) => h.pos = h.p.admit + h.p.rel
        /\ \A p \in Rendered :
            ( /\ ResultOf(p) = "Ok"
              /\ cycle.t <= p.admit + p.rel
              /\ p.admit + p.rel < cycle.t + cycle.frames )
            => [p |-> p, rep |-> 0, src |-> 0, pos |-> p.admit + p.rel] \in hits

\* C7 witness: a playback admitted at a clock value T > 0 with offset o > 0 has
\* had its first sample mixed.
C7_Witness ==
    /\ rpc = "rendered"
    /\ \E h \in hits :
        h.rep = 0 /\ h.src = 0 /\ h.p.admit > 0 /\ h.p.rel > 0

\* The step is the callback applying a ClearPlaybacks command.
DrainsClear ==
    /\ rpc = "drain"
    /\ queue # << >>
    /\ Head(queue).type = "ClearPlaybacks"
    /\ queue' = Tail(queue)

\* The step is the callback applying an AddPlaybacks command.
DrainsAdd ==
    /\ rpc = "drain"
    /\ queue # << >>
    /\ Head(queue).type = "AddPlaybacks"
    /\ queue' = Tail(queue)

\* The send numbers of the commands in the channel that carry one.
QueuedSeqs ==
    { queue[k].seq : k \in { j \in 1 .. Len(queue) : queue[j].type # "SetVolume" } }

\* C8: commands are applied in arrival order and a clear takes effect on the
\* next cycle: a playback sent before a ClearPlaybacks contributes nothing to a
\* cycle that began after that ClearPlaybacks was sent; an applied clear empties
\* the active set, an applied add appends its playbacks, and a playback sent
\* after a clear is never removed by it.
C8_ClearThenLaterAddsKept ==
    /\ [](\A h \in hits : h.p.seq > cycle.clear)
    /\ [](\A p \in Active : \A n \in QueuedSeqs : p.seq < n)
    /\ [][ /\ DrainsClear => playbacks' = << >>
           /\ DrainsAdd =>
                /\ Len(playbacks') = Len(playbacks) + Len(Head(queue).playbacks)
                /\ \A k \in 1 .. Len(playbacks) : playbacks'[k] = playbacks[k]
                /\ \A k \in 1 .. Len(Head(queue).playbacks) :
                    playbacks'[Len(playbacks) + k].seq = Head(queue).seq
         ]_vars

\* C8 witness: a cycle that began after a replacement's clear was sent has
\* rendered; the clear removed the older playbacks and those sent after it
\* have contributed.
C8_Witness ==
    /\ rpc = "rendered"
    /\ ~replace.mid
    /\ replace.dropped # << >>
    /\ \A k \in 1 .. Len(replace.dropped) : replace.dropped[k].seq < cycle.clear
    /\ hits # {}

\* C9: every started cycle eventually leaves its drain phase, whatever the
\* control context sends meanwhile.
C9_DrainEnds == (rpc = "drain") ~> (rpc # "drain")

\* C10: an unbounded playback with a positive period never reports Ended and no
\* render removes it; only an applied ClearPlaybacks takes it out of the
\* active set.
C10_UnboundedNeverEnds ==
    /\ [](rpc = "rendered" =>
            \A p \in Rendered :
                (Unbounded(p) /\ p.repetition_period > 0)
                    => (ResultOf(p) # "Ended" /\ p \in Active))
    /\ [][ \A p \in Active :
             (Unbounded(p) /\ p.repetition_period > 0 /\ rpc' # "faulted")
                => (p \in Active' \/ DrainsClear) ]_vars

\* C10 witness: an unbounded playback is still active after a cycle that began
\* past the end of its first sounding.
C10_Witness ==
    /\ rpc = "rendered"
    /\ \E p \in Rendered :
        /\ Unbounded(p)
        /\ p.repetition_period > 0
        /\ cycle.t > p.start + Len(p.samples)
        /\ p \in Active

\* What playback p alone adds to a silent buffer over the running cycle's window.
Contribution(p) == read(p, cycle.t, Silence).buffer

RECURSIVE SumOfContributions(_, _)
SumOfContributions(ps, j) ==
    IF ps = << >> THEN 0
    ELSE Contribution(Head(ps))[j] + SumOfContributions(Tail(ps), j)

\* Two playbacks with the same waveform and the same timing fields.
SameSound(p, q) ==
    /\ p.samples = q.samples
    /\ p.start = q.start
    /\ p.repetition_period = q.repetition_period
    /\ p.repetition_count = q.repetition_count

\* C11: mixing is additive: the mono signal before volume and clipping is the
\* sample-wise sum of what each rendered playback contributes alone, and two
\* playbacks of the same waveform with identical start, period and count
\* give exactly twice the signal of one.
C11_MixingIsAdditive ==
    rpc = "rendered" =>
        /\ \A j \in 1 .. cycle.frames :
            mono[j] = SumOfContributions(cycle.rendered, j)
        /\ (Len(cycle.rendered) = 2 /\ SameSound(cycle.rendered[1], cycle.rendered[2]))
            => \A j \in 1 .. cycle.frames :
                mono[j] = 2 * Contribution(cycle.rendered[1])[j]

\* C11 witness: a cycle has rendered two identical playbacks that both sound
\* in its window.
C11_Witness ==
    /\ rpc = "rendered"
    /\ Len(cycle.rendered) = 2
    /\ SameSound(cycle.rendered[1], cycle.rendered[2])
    /\ \E j \in 1 .. cycle.frames :
        Contribution(cycle.rendered[1])[j] > 0 /\ mono[j] > 0

\* The two oldest commands in the channel are both ClearPlaybacks.
TwoClearsAhead ==
    /\ Len(queue) >= 2
    /\ queue[1].type = "ClearPlaybacks"
    /\ queue[2].type = "ClearPlaybacks"

\* C12: clearing is idempotent: draining a ClearPlaybacks leaves the active set
\* empty and the clock and the volume as they were, and draining a second one
\* right after it gives the same state as draining the first alone.
C12_ClearIsIdempotent ==
    /\ []((rpc = "drain" /\ TwoClearsAhead) =>
            LET one == ApplyCommand(queue[1], playbacks, volume, time)
                two == ApplyCommand(queue[2], one.playbacks, one.volume, time)
            IN  /\ one.playbacks = << >>
                /\ one.volume = volume
                /\ two = one)
    /\ [][DrainsClear =>
            (playbacks' = << >> /\ volume' = volume /\ time' = time)]_vars

\* C12 witness: a non-empty active set; then two ClearPlaybacks were sent and
\* the running cycle has drained both with no other command in between (the
\* volume is still the initial one, so no SetVolume was ever drained).
C12_Witness ==
    /\ rpc = "drain"
    /\ queue = << >>
    /\ sent = 2
    /\ lastClearSent = 2
    /\ cycle.clear = 0
    /\ volume = 10
    /\ playbacks = << >>
    /\ time = cycle.t

\* C13: channel expansion: after a cycle over an output buffer of k frames of
\* c channels, every one of the k*c slots has been written and slot f*c + ch
\* holds the processed mono sample f, for every frame f and every channel ch.
C13_ChannelExpansion ==
    rpc = "rendered" =>
        LET k == cycle.frames
            c == numChannels
            processed == SoftClip(volume, mono)
        IN  /\ DOMAIN data = 0 .. (k * c - 1)
            /\ \A f \in 0 .. k - 1 : \A ch \in 0 .. c - 1 :
                data[f * c + ch] = processed[f + 1]

\* C13 witness: a cycle of two frames on a three-channel device has written
\* two different processed samples.
C13_Witness ==
    /\ rpc = "rendered"
    /\ numChannels = 3
    /\ cycle.frames = 2
    /\ data[0] # data[3]
    /\ data[5] # 0

\* The step is the callback applying a command of any kind.
DrainsCommand ==
    /\ rpc = "drain"
    /\ queue # << >>
    /\ queue' = Tail(queue)

\* The step is the callback rendering a cycle to its end.
Renders == rpc = "drain" /\ rpc' = "rendered"

\* C14: the clock counts the samples rendered: it starts at 0, never decreases,
\* a cycle adds exactly its number of mono frames (the output length divided
\* by the channel count), applying a command leaves it alone, and it always
\* equals the sum of the frames rendered so far.
C14_ClockCountsFrames ==
    /\ time = 0
    /\ [](time = framesRendered)
    /\ [][ /\ time' >= time
           /\ Renders =>
                /\ time' = time + Len(mono')
                /\ Len(mono') = Cardinality(DOMAIN data') \div numChannels
                /\ Len(mono') = cycle'.frames
           /\ DrainsCommand => time' = time
           /\ ~Renders => time' = time
         ]_vars

\* C14 witness: a second cycle has rendered after commands of all three kinds
\* were applied, and the clock is the sum of the two cycles' frames.
C14_Witness ==
    /\ rpc = "rendered"
    /\ cycle.t > 0
    /\ time = cycle.t + cycle.frames
    /\ volume # 10
    /\ replace.dropped # << >>
    /\ playbacks # << >>

\* The step is a call of TapTempo::tap.
Taps == tapped'.n = tapped.n + 1

\* C15: a tap that measures the interval d since the previous one clears the
\* accepted sequence and returns no estimate when the sequence is non-empty
\* and its latest interval v has v < d*0.5 or v > d*2.0; otherwise it appends
\* d and returns an estimate; either way its Instant becomes the new last.
C15_TapAcceptsOrResets ==
    [][Taps =>
        LET d == tapped'.now - tapTempo.last
            seq == tapTempo.taps
            v == seq[Len(seq)]
        IN  /\ tapTempo'.last = tapped'.now
            /\ IF seq # << >> /\ (2 * v < d \/ v > 2 * d)
               THEN tapTempo'.taps = << >> /\ tapped'.result = None
               ELSE tapTempo'.taps = Append(seq, d) /\ IsSome(tapped'.result)
    ]_vars

\* C15 witness: with a time unit of 0.5 s, the intervals 0.5, 0.5, 2.0: the
\* third tap has reset the sequence and returned no estimate.
C15_Witness ==
    /\ tapped.n = 3
    /\ tapped.taps = <<1, 1>>
    /\ tapped.now - tapped.last = 4
    /\ tapped.result = None
    /\ tapTempo.taps = << >>
    /\ tapTempo.last = tapped.now

\* C20: tap never returns None twice in a row; the accepted sequence is
\* non-empty after a tap that returned an estimate and empty after a reset;
\* any two adjacent accepted intervals v, d satisfy d*0.5 <= v <= d*2.0.
C20_TapSequenceInvariants ==
    /\ [](tapped.n > 0 =>
            /\ IsSome(tapped.result) => tapTempo.taps # << >>
            /\ tapped.result = None => tapTempo.taps = << >>)
    /\ [](\A i \in 1 .. Len(tapTempo.taps) - 1 :
            LET v == tapTempo.taps[i]
                d == tapTempo.taps[i + 1]
            IN  d <= 2 * v /\ v <= 2 * d)
    /\ [][(Taps /\ tapped.n > 0 /\ tapped.result = None)
            => IsSome(tapped'.result)]_vars

\* C20 witness: four taps of which the second was a reset: the third and the
\* fourth were accepted and left two different adjacent intervals.
C20_Witness ==
    /\ tapped.n = 4
    /\ IsSome(tapped.result)
    /\ Len(tapTempo.taps) = 2
    /\ tapTempo.taps[1] # tapTempo.taps[2]

\* A call of generate_click has returned.
ClickMade == call.fn = "generate_click" /\ IsSome(call.result)

Click == Unwrap(call.result)

\* C16 as stated: the number of samples of a click is
\* round(duration_seconds * sample_rate), rounding to nearest.
C16_CountIsRounded ==
    ClickMade =>
        Len(Click) = Round(call.millis * call.sample_rate, MillisPerSecond)

\* C16 amended: the number of samples of a click is
\* duration_seconds * sample_rate with its fraction dropped, so it is one less
\* than the rounded value whenever the fraction is one half or more.
C16_CountIsTruncated ==
    ClickMade =>
        LET n == Len(Click)
            product == call.millis * call.sample_rate
        IN  /\ n * MillisPerSecond <= product
            /\ product < (n + 1) * MillisPerSecond
            /\ \A k \in 1 .. n : Click[k].i = k - 1

\* C16 witness: a click whose exact length has a fraction of one half or more
\* has been synthesized with fewer samples than the rounded length.
C16_Witness ==
    /\ ClickMade
    /\ Len(Click) > 0
    /\ Len(Click) < Round(call.millis * call.sample_rate, MillisPerSecond)

\* 0.01 ^ (k / n) is within a factor of two of 0.01.  The quotient of the two
\* is 100 ^ (m / n) with m the distance of k from n, and 100 ^ (m / n) <= 2
\* is 100 ^ m <= 2 ^ n; for m > 4 and the lengths of the model it is false.
NearFloor(k, n) ==
    LET m == IF k <= n THEN n - k ELSE k - n
    IN  m <= 4 /\ 100 ^ m <= 2 ^ n

\* The exponent of 0.01 that is the envelope of the last sample divided by the
\* envelope of the first, in n-ths.
EnvelopeRatio == Click[Len(Click)].envelope - Click[1].envelope

\* C17 as stated: for every n > 0 the envelope of the last sample divided by
\* the envelope of the first is approximately 0.01, here: within a factor of
\* two of it.
C17_RatioIsFloor ==
    (ClickMade /\ Len(Click) > 0) => NearFloor(EnvelopeRatio, Len(Click))

\* C17 amended: the envelope of sample i is 0.01 ^ (i / n), so the last
\* divided by the first is 0.01 ^ ((n - 1) / n): 1 for n = 1, 0.1 for n = 2,
\* and within a factor of two of 0.01 exactly from n = 7 on.
C17_RatioIsShortOfFloor ==
    (ClickMade /\ Len(Click) > 0) =>
        LET n == Len(Click)
        IN  /\ \A k \in 1 .. n : Click[k].envelope = k - 1
            /\ EnvelopeRatio = n - 1
            /\ NearFloor(EnvelopeRatio, n) <=> n >= 7

\* C17 witness: a click of two samples, whose last envelope is 0.01 ^ (1 / 2).
C17_Witness ==
    /\ ClickMade
    /\ Len(Click) = 2
    /\ EnvelopeRatio = 1

\* A call of read_sample has returned.
SampleRead == call.fn = "read_sample" /\ IsSome(call.result)

\* C18: read_sample with any signed time_offset adds samples[j - time_offset]
\* to output[j] for every destination index j with
\* 0 <= j - time_offset < len(samples) and leaves every other output[j] as it
\* was; every index it pairs lies inside the waveform and inside the output.
C18_ReadSampleClips ==
    SampleRead =>
        LET out == Unwrap(call.result)
            o == call.time_offset
            n == Len(call.samples)
        IN  /\ Len(out) = Len(call.output)
            /\ \A j \in 0 .. Len(call.output) - 1 :
                out[j + 1] =
                    IF 0 <= j - o /\ j - o < n
                    THEN call.output[j + 1] + call.samples[j - o + 1]
                    ELSE call.output[j + 1]
            /\ \A pr \in ZipPairs(new(call.samples), o, Len(call.output)) :
                /\ 0 <= pr[1] /\ pr[1] < Len(call.output)
                /\ 0 <= pr[2] /\ pr[2] < n
                /\ pr[1] - pr[2] = o

\* C18 witness: a negative offset has put the second sample of the waveform on
\* the first slot of an output that already held something, and left the
\* second slot alone.
C18_Witness ==
    /\ SampleRead
    /\ call.time_offset = -1
    /\ call.samples = <<1, 2>>
    /\ call.output = <<10, 10>>
    /\ Unwrap(call.result) = <<12, 10>>

\* A call of read over two windows has returned.
WindowsRead == call.fn = "read" /\ IsSome(call.result)

\* The samples of the repetitions of p that fall on a clock position of
\* [from, to): repetition rep starts at start + rep * period.
Due(p, from, to) ==
    { h \in { [p |-> p, rep |-> rep, src |-> src,
               pos |-> p.start + rep * p.repetition_period + src] :
                rep \in 0 .. to, src \in 0 .. Len(p.samples) - 1 } :
        from <= h.pos /\ h.pos < to }

\* C19: for an unbounded playback with 0 < len(samples) <= repetition_period,
\* rendering [t, t+a) and [t+a, t+a+b) one after the other gives the samples
\* of rendering [t, t+a+b) at once, and every sample of every repetition that
\* falls in the span is mixed exactly once.
C19_WindowCutIsInvisible ==
    LET p == call.playback
        r == Unwrap(call.result)
    IN  ( /\ WindowsRead
          /\ 0 < Len(p.samples)
          /\ Len(p.samples) <= p.repetition_period )
        => /\ r.first.buffer \o r.second.buffer = r.whole.buffer
           /\ r.first.hits \cup r.second.hits = r.whole.hits
           /\ r.first.hits \cap r.second.hits = {}
           /\ r.whole.hits = Due(p, call.t, call.t + call.a + call.b)
           /\ \A j \in 1 .. call.a + call.b :
                r.whole.buffer[j] =
                    IF \E h \in r.whole.hits : h.pos = call.t + j - 1
                    THEN p.samples[(CHOOSE h \in r.whole.hits : h.pos = call.t + j - 1).src + 1]
                    ELSE 0

\* C19 witness: a repetition of two samples straddles the cut: its first
\* sample was mixed by the first window and its second by the second.
C19_Witness ==
    /\ WindowsRead
    /\ Len(call.playback.samples) = 2
    /\ call.playback.repetition_period >= 2
    /\ \E h1 \in Unwrap(call.result).first.hits :
       \E h2 \in Unwrap(call.result).second.hits :
            /\ h1.rep = h2.rep
            /\ h1.rep > 0
            /\ h1.src = 0
            /\ h2.src = 1

====
